---- MODULE Spec2Model ----
(***************************************************************************)
(* openfetch (src/src/index.js): a fetch-like OpenAPI 3 client.            *)
(*                                                                         *)
(* create(spec, opts) builds one invoker per (path, method).  An invoker   *)
(* is used in three stages: invoke(params, options) returns a deferred     *)
(* async function; applying it to an environment runs the async function,  *)
(* which awaits context.dereference(...) several times, serializes the     *)
(* parameters and hands the request to fetch.                               *)
(*                                                                         *)
(* The model keeps                                                          *)
(*   - the document as a graph of nodes with identity (objects, arrays,     *)
(*     $ref nodes, primitives),                                             *)
(*   - the memoize Map and the promises dereference creates, with one       *)
(*     action per promise job (the $refs.then callback, the settlement of   *)
(*     Promise.all / an async function / an adopted promise),               *)
(*   - every invocation's position in the async function (one action per    *)
(*     stretch of code between two awaits).                                 *)
(* Strings are TLA+ strings; JavaScript `undefined` is the primitive        *)
(* "undefined"; booleans of the document are the primitives "true" and      *)
(* "false".                                                                 *)
(***************************************************************************)
EXTENDS Integers, Sequences, FiniteSets, TLC

\* Number of invocations made on the one built API.
MaxInv == 2

VARIABLES
  logging,   \* create's `logging` option (context.log is set iff it is true)
  hasGone,   \* whether the document defines #/components/parameters/gone and #/x-session
  refs,      \* state of the promise $refs = RefParser.resolve(spec)
  cache,     \* the Map of memoize: key -> result (0: the primitive itself, p > 0: promise p)
  proms,     \* the promises dereference has created, by creation order
  started,   \* observation: how often fn(arg) was run per key
  returned,  \* observation: the results dereference(key) has returned per key
  inv,       \* the invocations: position and locals of each async function
  arg,       \* input of the pure function under check (pure-function specifications)
  ret        \* its result

vars == <<logging, hasGone, refs, cache, proms, started, returned, inv, arg, ret>>

Put(f, k, v) == [x \in (DOMAIN f) \cup {k} |-> IF x = k THEN v ELSE f[x]]

Get(f, k, d) == IF k \in DOMAIN f THEN f[k] ELSE d

IndexOf(s, x) == IF \E i \in 1..Len(s) : s[i] = x
                 THEN CHOOSE i \in 1..Len(s) : s[i] = x /\ \A j \in 1..(i-1) : s[j] # x
                 ELSE 0

RECURSIVE Join(_, _)
Join(s, sep) == IF Len(s) = 0 THEN ""
                ELSE IF Len(s) = 1 THEN s[1]
                ELSE s[1] \o sep \o Join(Tail(s), sep)

(***************************************************************************)
(* The document.  Every composite node is named; any other string is a      *)
(* primitive that stands for itself.                                        *)
(*                                                                         *)
(*  paths:                                                                  *)
(*    /users/{id}:                                                          *)
(*      parameters: [pItem]                                                 *)
(*      get: {operationId: getUser, parameters: [pOp, rQ],                  *)
(*            security: [{api_key: []}, {oauth2: []}]}                      *)
(*      put: {operationId: putUser, deprecated: true, requestBody: bUser}   *)
(*    /tree: get: {operationId: getTree, parameters: [pNode]}               *)
(*    /loop: get: {operationId: getLoop, parameters: [rLoop]}               *)
(*    /gone: get: {operationId: getGone, parameters: [rGone]}               *)
(*  security: [{basic: []}]                                                 *)
(*  components:                                                             *)
(*    schemas: {Id: sId, Tags: sTags, Tree: sTree}                          *)
(*    parameters: {tags: pTags, loop: rLoopDef, gone: pGone (if hasGone)}   *)
(*    securitySchemes: {api_key, qkey, sid: rSid, basic, bearer, digest,    *)
(*                      oauth2, oidc}   (see SecuritySchemes)               *)
(*  x-session: the apiKey-in-cookie scheme rSid points at (if hasGone)      *)
(*  the scheme object of <name> is the node scheme:<name>                   *)
(*  pItem = {name: id, in: path, required: true, schema: rId1}              *)
(*  pOp   = {name: id, in: path, style: label, schema: rId2}                *)
(*  pTags = {name: tags, in: query, explode: false, schema: sTags}          *)
(*  pNode = {name: node, in: query, schema: rTree}                          *)
(*  pGone = {name: gone, in: cookie, required: true}                        *)
(*  sTree = {type: object, child: rTree2}   (rTree, rTree2 -> Tree: cycle)  *)
(*  rLoopDef = {$ref: #/components/parameters/loop}   (points at itself)    *)
(*  bUser = {required: true, content: {application/json: {example: fox}}}   *)
(*  rId1, rId2 -> #/components/schemas/Id;  rQ -> #/components/parameters/tags *)
(***************************************************************************)
Operations == {"getUser", "putUser", "getTree", "getLoop", "getGone"}

\* invoker: const unresolvedParameters = [...context.parameters, ...parameters]
\* is a new array per operation; its identity is "params:<operationId>".
unresolvedParameters(op) == "params:" \o op

\* A security scheme object; a field the object does not have is "".
Scheme(type, scheme, in, name) == [type |-> type, scheme |-> scheme, in |-> in, name |-> name]

\* The security scheme objects of the document, by scheme name.
SecuritySchemes ==
  [api_key |-> Scheme("apiKey", "", "header", "X-API-Key"),
   qkey |-> Scheme("apiKey", "", "query", "key"),
   sid |-> Scheme("apiKey", "", "cookie", "SID"),
   basic |-> Scheme("http", "Basic", "", ""),
   bearer |-> Scheme("http", "bearer", "", ""),
   digest |-> Scheme("http", "Digest", "", ""),
   oauth2 |-> Scheme("oauth2", "", "", ""),
   oidc |-> Scheme("openIdConnect", "", "", "")]

\* Object.keys(components.securitySchemes), in the document's order.
SchemeNames == <<"api_key", "qkey", "sid", "basic", "bearer", "digest", "oauth2", "oidc">>

DocKids(n) ==
  CASE n = "params:getUser" -> <<"pItem", "pOp", "rQ">>
    [] n = "params:putUser" -> <<"pItem">>
    [] n = "params:getTree" -> <<"pNode">>
    [] n = "params:getLoop" -> <<"rLoop">>
    [] n = "params:getGone" -> <<"rGone">>
    [] n = "pItem" -> <<"id", "path", "true", "rId1">>
    [] n = "pOp" -> <<"id", "path", "label", "rId2">>
    [] n = "pTags" -> <<"tags", "query", "false", "sTags">>
    [] n = "pNode" -> <<"node", "query", "rTree">>
    [] n = "pGone" -> <<"gone", "cookie", "true">>
    [] n = "sId" -> <<"string">>
    [] n = "sTags" -> <<"array">>
    [] n = "sTree" -> <<"object", "rTree2">>
    [] n = "bUser" -> <<"true", "cUser">>
    [] n = "cUser" -> <<"mJson">>
    [] n = "mJson" -> <<"fox">>
    [] n = "securitySchemes" ->
         <<"scheme:api_key", "scheme:qkey", "rSid", "scheme:basic", "scheme:bearer",
           "scheme:digest", "scheme:oauth2", "scheme:oidc">>
    [] n = "scheme:api_key" -> <<"apiKey", "header", "X-API-Key">>
    [] n = "scheme:qkey" -> <<"apiKey", "query", "key">>
    [] n = "scheme:sid" -> <<"apiKey", "cookie", "SID">>
    [] n = "scheme:basic" -> <<"http", "Basic">>
    [] n = "scheme:bearer" -> <<"http", "bearer">>
    [] n = "scheme:digest" -> <<"http", "Digest">>
    [] n = "scheme:oauth2" -> <<"oauth2">>
    [] n = "scheme:oidc" -> <<"openIdConnect">>
    [] OTHER -> <<>>

DocKeys(n) ==
  CASE n = "pItem" -> <<"name", "in", "required", "schema">>
    [] n = "pOp" -> <<"name", "in", "style", "schema">>
    [] n = "pTags" -> <<"name", "in", "explode", "schema">>
    [] n = "pNode" -> <<"name", "in", "schema">>
    [] n = "pGone" -> <<"name", "in", "required">>
    [] n = "sId" -> <<"type">>
    [] n = "sTags" -> <<"type">>
    [] n = "sTree" -> <<"type", "child">>
    [] n = "bUser" -> <<"required", "content">>
    [] n = "cUser" -> <<"application/json">>
    [] n = "mJson" -> <<"example">>
    [] n = "securitySchemes" -> SchemeNames
    [] n \in {"scheme:api_key", "scheme:qkey", "scheme:sid"} -> <<"type", "in", "name">>
    [] n \in {"scheme:basic", "scheme:bearer", "scheme:digest"} -> <<"type", "scheme">>
    [] n \in {"scheme:oauth2", "scheme:oidc"} -> <<"type">>
    [] OTHER -> <<>>

\* The pointer of a {$ref: pointer} node.
DocPtr(n) ==
  CASE n \in {"rId1", "rId2"} -> "#/components/schemas/Id"
    [] n = "rQ" -> "#/components/parameters/tags"
    [] n \in {"rTree", "rTree2"} -> "#/components/schemas/Tree"
    [] n \in {"rLoop", "rLoopDef"} -> "#/components/parameters/loop"
    [] n = "rGone" -> "#/components/parameters/gone"
    [] n = "rSid" -> "#/x-session"
    [] OTHER -> ""

DocKind(n) ==
  IF n \in {"params:getUser", "params:putUser", "params:getTree", "params:getLoop",
            "params:getGone"} THEN "array"
  ELSE IF DocPtr(n) # "" THEN "ref"
  ELSE IF Len(DocKeys(n)) > 0 THEN "object"
  ELSE "prim"

\* refs.get(pointer): the node the reference index holds for the pointer;
\* a pointer that is not in the index makes refs.get throw.
RefsGet(ptr) ==
  CASE ptr = "#/components/schemas/Id" -> [ok |-> TRUE, node |-> "sId"]
    [] ptr = "#/components/parameters/tags" -> [ok |-> TRUE, node |-> "pTags"]
    [] ptr = "#/components/schemas/Tree" -> [ok |-> TRUE, node |-> "sTree"]
    [] ptr = "#/components/parameters/loop" -> [ok |-> TRUE, node |-> "rLoopDef"]
    [] ptr = "#/components/parameters/gone" -> [ok |-> hasGone, node |-> "pGone"]
    [] ptr = "#/x-session" -> [ok |-> hasGone, node |-> "scheme:sid"]
    [] OTHER -> [ok |-> FALSE, node |-> "undefined"]

\* The document's top-level `security`, the default of every operation.
ContextSecurity == <<<<"basic">>>>

\* What invoker closes over per operation (context.path, method, operation fields).
Operation(op) ==
  CASE op = "getUser" -> [path |-> <<"/users/", "{id}">>, method |-> "get",
                          requestBody |-> "undefined", deprecated |-> FALSE,
                          security |-> <<<<"api_key">>, <<"oauth2">>>>]
    [] op = "putUser" -> [path |-> <<"/users/", "{id}">>, method |-> "put",
                          requestBody |-> "bUser", deprecated |-> TRUE,
                          security |-> ContextSecurity]
    [] op = "getTree" -> [path |-> <<"/tree">>, method |-> "get",
                          requestBody |-> "undefined", deprecated |-> FALSE,
                          security |-> ContextSecurity]
    [] op = "getLoop" -> [path |-> <<"/loop">>, method |-> "get",
                          requestBody |-> "undefined", deprecated |-> FALSE,
                          security |-> ContextSecurity]
    [] OTHER -> [path |-> <<"/gone">>, method |-> "get",
                 requestBody |-> "undefined", deprecated |-> FALSE,
                 security |-> ContextSecurity]

(***************************************************************************)
(* Resolved values have identity too: the object or array a fulfilled      *)
(* promise p produced is "res<p>" (Object.fromEntries and Promise.all       *)
(* build a new object); a promise that adopted another one yields that      *)
(* one's value.  A value is handled as [p, v]: the object made by promise   *)
(* p (p > 0), or the primitive v (p = 0).                                   *)
(***************************************************************************)
ResKey(p) == "res" \o ToString(p)

IsRes(ps, key) == \E p \in 1..Len(ps) : key = ResKey(p)

ResPid(ps, key) == CHOOSE p \in 1..Len(ps) : key = ResKey(p)

RECURSIVE KindOf(_, _), KeysOf(_, _), KidsOf(_, _), Final(_, _)

\* The value a settled promise p stands for, through the promises it adopted.
Final(ps, p) ==
  IF ps[p].kind = "then"
  THEN IF ps[p].deps[1] = 0
       THEN [p |-> 0, v |-> RefsGet(DocPtr(ps[p].key)).node]
       ELSE Final(ps, ps[p].deps[1])
  ELSE [p |-> p, v |-> ""]

\* Element i of the object or array that promise p produced.
KidHandle(ps, p, i) ==
  IF ps[p].deps[i] = 0 THEN [p |-> 0, v |-> KidsOf(ps, ps[p].key)[i]]
  ELSE Final(ps, ps[p].deps[i])

HandleKey(h) == IF h.p = 0 THEN h.v ELSE ResKey(h.p)

KindOf(ps, key) == IF IsRes(ps, key) THEN KindOf(ps, ps[ResPid(ps, key)].key)
                   ELSE DocKind(key)

KeysOf(ps, key) == IF IsRes(ps, key) THEN KeysOf(ps, ps[ResPid(ps, key)].key)
                   ELSE DocKeys(key)

KidsOf(ps, key) ==
  IF IsRes(ps, key)
  THEN LET p == ResPid(ps, key)
       IN [i \in 1..Len(ps[p].deps) |-> HandleKey(KidHandle(ps, p, i))]
  ELSE DocKids(key)

\* object[name] of a value.
FieldAt(ps, h, i) == IF i = 0 THEN [p |-> 0, v |-> "undefined"] ELSE KidHandle(ps, h.p, i)

Field(ps, h, name) ==
  FieldAt(ps, h, IF h.p = 0 THEN 0 ELSE IndexOf(KeysOf(ps, ps[h.p].key), name))

(***************************************************************************)
(* memoize and dereference.  S = [cache, proms, started, returned] is the   *)
(* state a synchronous call works on; a call returns [S, res].              *)
(***************************************************************************)
RECURSIVE memoize(_, _), resolveNode(_, _), derefKids(_, _, _)

NewPromise(node, kind, deps) ==
  [key |-> node, kind |-> kind, st |-> "pending", err |-> "", deps |-> deps,
   called |-> kind # "then"]

\* A memoize that never looks the argument up: fn runs on every call and
\* map.set overwrites the entry.
memoizeNoLookup(S, node) ==
  LET r == resolveNode([S EXCEPT !.started = Put(@, node, Get(@, node, 0) + 1)], node)
  IN [S |-> [r.S EXCEPT !.cache = Put(@, node, r.res),
                        !.returned = Put(@, node, Get(@, node, {}) \cup {r.res})],
      res |-> r.res]

\* memoize(fn, map)(arg): the cached entry, or fn(arg) stored after fn returned.
memoize(S, node) ==
  IF node \in DOMAIN S.cache
  THEN [S |-> [S EXCEPT !.returned = Put(@, node, Get(@, node, {}) \cup {S.cache[node]})],
        res |-> S.cache[node]]
  ELSE LET r == resolveNode([S EXCEPT !.started = Put(@, node, Get(@, node, 0) + 1)], node)
       IN [S |-> [r.S EXCEPT !.cache = Put(@, node, r.res),
                             !.returned = Put(@, node, Get(@, node, {}) \cup {r.res})],
           res |-> r.res]

\* map((value) => dereference(value)) over the elements, in order.
derefKids(S, kids, deps) ==
  IF Len(deps) = Len(kids) THEN [S |-> S, deps |-> deps]
  ELSE LET r == memoize(S, kids[Len(deps) + 1])
       IN derefKids(r.S, kids, Append(deps, r.res))

\* The cond of dereference: a primitive is returned as is (res 0); an array
\* gives Promise.all of its elements' results; a $ref node gives
\* $refs.then(callback); any other object gives the promise of the async
\* function that awaits Promise.all of its entries.
resolveNode(S, node) ==
  LET k == KindOf(S.proms, node)
  IN CASE k = "prim" -> [S |-> S, res |-> 0]
       [] k = "array" ->
            LET r == derefKids(S, KidsOf(S.proms, node), <<>>)
            IN [S |-> [r.S EXCEPT !.proms = Append(@, NewPromise(node, "all", r.deps))],
                res |-> Len(r.S.proms) + 1]
       [] k = "ref" ->
            [S |-> [S EXCEPT !.proms = Append(@, NewPromise(node, "then", <<>>))],
             res |-> Len(S.proms) + 1]
       [] OTHER ->
            LET r == derefKids(S, KidsOf(S.proms, node), <<>>)
            IN [S |-> [r.S EXCEPT !.proms = Append(@, NewPromise(node, "async", r.deps))],
                res |-> Len(r.S.proms) + 1]

\* context.dereference
dereference(S, node) == memoize(S, node)

Mem == [cache |-> cache, proms |-> proms, started |-> started, returned |-> returned]

SetMem(S) ==
  /\ cache' = S.cache
  /\ proms' = S.proms
  /\ started' = S.started
  /\ returned' = S.returned

\* Whether `await r` can continue: r is no promise, or a settled one.
Settled(ps, r) == IF r = 0 THEN TRUE ELSE ps[r].st # "pending"

\* The promise p has settled as rejected.
Rejected(ps, r) == IF r = 0 THEN FALSE ELSE ps[r].st = "rejected"

(***************************************************************************)
(* Promise jobs.                                                            *)
(***************************************************************************)
\* RefParser.resolve(spec) resolves.
RefsResolve ==
  /\ refs = "pending"
  /\ refs' = "resolved"
  /\ UNCHANGED <<logging, hasGone, cache, proms, started, returned, inv, arg, ret>>

\* The callback of $refs.then for the $ref node of promise p:
\* (refs) => dereference(refs.get($ref)).  refs.get throws on a pointer the
\* index does not hold; a primitive result fulfils p; a promise result is
\* adopted, and p itself as the result rejects p (a promise cannot be resolved
\* with itself).
RefCallback(p) ==
  /\ refs = "resolved"
  /\ proms[p].kind = "then"
  /\ ~proms[p].called
  /\ LET g == RefsGet(DocPtr(proms[p].key))
         r == dereference(Mem, g.node)
     IN IF ~g.ok
        THEN /\ proms' = [proms EXCEPT ![p].called = TRUE, ![p].st = "rejected",
                                       ![p].err = "MissingPointerError"]
             /\ UNCHANGED <<cache, started, returned>>
        ELSE SetMem([r.S EXCEPT !.proms[p].called = TRUE,
                                !.proms[p].deps = <<r.res>>,
                                !.proms[p].st = IF r.res = 0 THEN "fulfilled"
                                                ELSE IF r.res = p THEN "rejected"
                                                ELSE "pending",
                                !.proms[p].err = IF r.res = p THEN "TypeError" ELSE ""])
  /\ UNCHANGED <<logging, hasGone, refs, inv, arg, ret>>

\* A pending promise settles from the promises it depends on: Promise.all and
\* the async function of an object reject with a rejected element's reason and
\* fulfil once every element is fulfilled; a promise that adopted another one
\* takes its state.
Settle(p) ==
  /\ proms[p].st = "pending"
  /\ proms[p].called
  /\ \E st \in {"fulfilled", "rejected"} : \E e \in {"", "TypeError", "MissingPointerError"} :
       /\ IF st = "rejected"
          THEN \E i \in 1..Len(proms[p].deps) :
                 /\ Rejected(proms, proms[p].deps[i])
                 /\ e = proms[proms[p].deps[i]].err
          ELSE /\ e = ""
               /\ \A i \in 1..Len(proms[p].deps) :
                    IF proms[p].deps[i] = 0 THEN TRUE
                    ELSE proms[proms[p].deps[i]].st = "fulfilled"
       /\ proms' = [proms EXCEPT ![p].st = st, ![p].err = e]
  /\ UNCHANGED <<logging, hasGone, refs, cache, started, returned, inv, arg, ret>>

(***************************************************************************)
(* Parameter values and serialization.  A caller's value is                 *)
(* [t |-> "str", s |-> string] or [t |-> "arr", a |-> sequence of scalars]; *)
(* a name that is not in the values map is undefined.                       *)
(***************************************************************************)
StrV(x) == [t |-> "str", s |-> x, a |-> <<>>]

ArrV(x) == [t |-> "arr", s |-> "", a |-> x]

\* encodeURIComponent on the scalars the model uses.
encodeURIComponent(x) ==
  CASE x = "a b" -> "a%20b"
    [] x = "x/y" -> "x%2Fy"
    [] x = "b,c" -> "b%2Cc"
    [] OTHER -> x

EncodeAll(a) == [i \in 1..Len(a) |-> encodeURIComponent(a[i])]

\* The fields of a resolved parameter definition ("undefined" when absent).
ParamFields ==
  {"name", "in", "style", "explode", "required", "allowReserved", "allowEmptyValue"}

ParamRec(ps, h) == [k \in ParamFields |-> Field(ps, h, k).v]

\* template.parse(`{${prefix}${name}${suffix}}`).expand(values): the URI
\* template expansion (RFC 6570) of one variable with operator `prefix`.
Expand(prefix, name, explode, values) ==
  IF name \notin DOMAIN values THEN ""
  ELSE LET v == values[name]
           e == EncodeAll(v.a)
       IN IF v.t = "str"
          THEN CASE prefix = ";" -> ";" \o name \o (IF v.s = "" THEN ""
                                                    ELSE "=" \o encodeURIComponent(v.s))
                 [] OTHER -> prefix \o encodeURIComponent(v.s)
          ELSE IF Len(e) = 0 THEN ""
          ELSE CASE prefix = ";" ->
                      IF explode
                      THEN Join([i \in 1..Len(e) |-> ";" \o name \o "=" \o e[i]], "")
                      ELSE ";" \o name \o "=" \o Join(e, ",")
                 [] prefix = "." -> "." \o Join(e, IF explode THEN "." ELSE ",")
                 [] OTHER -> Join(e, ",")

\* pathParameter(values)(path, parameter); the path is kept as its literal
\* pieces and {name} placeholders, replaceAll replaces the placeholders.
pathParameter(values, path, parameter) ==
  LET style == IF parameter.style = "undefined" THEN "simple" ELSE parameter.style
      explode == parameter.explode = "true"
      prefix == CASE style = "matrix" -> ";"
                  [] style = "label" -> "."
                  [] OTHER -> ""
      expansion == Expand(prefix, parameter.name, explode, values)
  IN [i \in 1..Len(path) |->
        IF path[i] = "{" \o parameter.name \o "}" THEN expansion ELSE path[i]]

\* qs.stringify({[name]: value}, {encode}) for a scalar, an array of scalars
\* (qs's default index notation) or undefined.
QsStringify(name, values, encode) ==
  IF name \notin DOMAIN values THEN ""
  ELSE LET v == values[name]
           open == IF encode THEN "%5B" ELSE "["
           close == IF encode THEN "%5D" ELSE "]"
           enc(x) == IF encode THEN encodeURIComponent(x) ELSE x
       IN IF v.t = "str" THEN enc(name) \o "=" \o enc(v.s)
          ELSE Join([i \in 1..Len(v.a) |->
                       enc(name) \o open \o ToString(i - 1) \o close \o "=" \o enc(v.a[i])],
                    "&")

\* queryParameter(values)(parameter).  The result is what the function
\* returns: [t |-> "string", v |-> <<s>>], [t |-> "array", v |-> strings],
\* [t |-> "undefined"], or [t |-> "throw"] when it throws.  An exploded array
\* reaches value.map(<a string>), and Array.prototype.map throws a TypeError
\* on a callback that is not a function.
queryParameter(values, parameter) ==
  LET name == parameter.name
      style == IF parameter.style = "undefined" THEN "form" ELSE parameter.style
      explode == IF parameter.explode = "undefined" THEN style = "form"
                 ELSE parameter.explode = "true"
      allowReserved == parameter.allowReserved = "true"
      allowEmptyValue == parameter.allowEmptyValue = "true"
      encode(x) == IF allowReserved THEN x ELSE encodeURIComponent(x)
      delimiter == CASE style = "spaceDelimited" -> "%20"
                     [] style = "pipeDelimited" -> "|"
                     [] OTHER -> ","
  IN IF style = "deepObject"
     THEN [t |-> "string", v |-> <<QsStringify(name, values, ~allowReserved)>>]
     ELSE IF name \notin DOMAIN values
     THEN IF allowEmptyValue
          THEN [t |-> "string", v |-> <<encodeURIComponent(name) \o "=">>]
          ELSE [t |-> "undefined", v |-> <<>>]
     ELSE IF values[name].t = "arr"
     THEN IF explode
          THEN [t |-> "throw", v |-> <<>>]
          ELSE [t |-> "string",
                v |-> <<encodeURIComponent(name) \o "="
                        \o Join([i \in 1..Len(values[name].a) |-> encode(values[name].a[i])],
                                delimiter)>>]
     ELSE [t |-> "string", v |-> <<encodeURIComponent(name) \o "=" \o encode(values[name].s)>>]

RECURSIVE ReducePath(_, _, _), FlatMap(_)

\* allParameters.filter(propEq('in', 'path')).reduce(pathParameter(params), context.path)
ReducePath(values, path, parameters) ==
  IF Len(parameters) = 0 THEN path
  ELSE ReducePath(values, pathParameter(values, path, Head(parameters)), Tail(parameters))

\* flatMap over the results of queryParameter: an array is spliced in, a
\* string is one element, undefined is one element that join prints as "".
FlatMap(results) ==
  IF Len(results) = 0 THEN <<>>
  ELSE (CASE Head(results).t = "undefined" -> <<"">>
          [] OTHER -> Head(results).v) \o FlatMap(Tail(results))

\* create's `url` option.
ContextUrl == "http://api"

\* ajv.validate(schema, value) for the schemas of the document: the value
\* has the schema's type (undefined has none).
Validate(ps, schema, values, name) ==
  LET type == Field(ps, schema, "type").v
  IN CASE type = "string" -> name \in DOMAIN values /\ values[name].t = "str"
       [] type = "array" -> name \in DOMAIN values /\ values[name].t = "arr"
       [] type = "object" -> FALSE
       [] OTHER -> TRUE

(***************************************************************************)
(* Invocations.  inv[i] holds the locals of one run of the async function   *)
(* of invoke: pc is its position, wait the result it awaits, pa the         *)
(* promise of allParameters, k the index of the logging loop, warns the     *)
(* messages it passed to context.log.warn, requests the calls it made to    *)
(* fetch, err and at the reason and the place of its rejection.             *)
(***************************************************************************)
NoValues == [x \in {} |-> StrV("")]

NoOptions == [contentType |-> "undefined", body |-> "undefined"]

\* Credentials: a token, or an object with some of the fields user and pass.
TokenC(x) == [t |-> "str", s |-> x, has |-> {}]

ObjectC(fields) == [t |-> "obj", s |-> "", has |-> fields]

NoCredentials == [x \in {} |-> TokenC("")]

NoEnv == [url |-> "undefined", credentials |-> NoCredentials]

\* The calls invoke(params, options) the model makes.
Inputs ==
  {[op |-> "getUser", params |-> v, options |-> NoOptions] :
     v \in {NoValues, [id |-> StrV("a b"), tags |-> ArrV(<<"x/y", "c">>)]}}
  \cup {[op |-> "putUser", params |-> [id |-> ArrV(<<"fox", "b,c">>)],
          options |-> [contentType |-> "undefined", body |-> "user"]],
        [op |-> "getTree", params |-> [node |-> StrV("x/y")], options |-> NoOptions],
        [op |-> "getLoop", params |-> NoValues, options |-> NoOptions],
        [op |-> "getGone", params |-> NoValues, options |-> NoOptions]}

\* The environment a deferred invocation of an operation is applied to.
Envs(op) ==
  IF op = "getUser"
  THEN {[url |-> "http://env", credentials |-> [oauth2 |-> TokenC("token")]]}
  ELSE {NoEnv}

Template ==
  [pc |-> "template", op |-> "", params |-> NoValues, options |-> NoOptions, env |-> NoEnv,
   wait |-> 0, pa |-> 0, k |-> 0, sch |-> "", warns |-> <<>>, requests |-> <<>>,
   err |-> "", at |-> "", url |-> "", search |-> ""]

AllParameters(ps, I) ==
  [k \in 1..Len(ps[I.pa].deps) |-> ParamRec(ps, KidHandle(ps, I.pa, k))]

Reject(I, err, at) == [I EXCEPT !.pc = "rejected", !.err = err, !.at = at, !.wait = 0]

\* Lines 186-193: the path, the url and the query string.  url is the string
\* (env.url || context.url) + path, and the module is strict-mode code, so the
\* assignment url.search = ... throws a TypeError once its right-hand side is
\* evaluated (a property cannot be created on a primitive string); an
\* exception of queryParameter in the right-hand side comes first.  Nothing
\* after line 190 runs: no header is built, no body and no security
\* requirement is processed, and fetch is not called.
SerializeWith(I, url, results) ==
  IF \E j \in 1..Len(results) : results[j].t = "throw"
  THEN Reject([I EXCEPT !.url = url], "TypeError", "queryParameter")
  ELSE Reject([I EXCEPT !.url = url, !.search = Join(FlatMap(results), "&")],
              "TypeError", "url.search")

QueryResults(values, queries) ==
  [j \in 1..Len(queries) |-> queryParameter(values, queries[j])]

SerializeAll(I, all) ==
  SerializeWith(I,
    (IF I.env.url # "undefined" THEN I.env.url ELSE ContextUrl)
      \o Join(ReducePath(I.params, Operation(I.op).path,
                         SelectSeq(all, LAMBDA q : q.in = "path")), ""),
    QueryResults(I.params, SelectSeq(all, LAMBDA q : q.in = "query")))

Serialize(ps, I) == SerializeAll(I, AllParameters(ps, I))

RECURSIVE LogLoop(_, _, _, _), LogParameter(_, _, _, _, _)

\* The for loop of lines 165-180 from parameter k up to its next await:
\* [k, warns], with k past the last parameter when the loop has ended.
LogLoop(ps, I, k, warns) ==
  IF k > Len(ps[I.pa].deps) THEN [k |-> k, warns |-> warns]
  ELSE LogParameter(ps, I, k, warns, ParamRec(ps, KidHandle(ps, I.pa, k)))

\* One turn of the loop, for the parameter at k.
LogParameter(ps, I, k, warns, parameter) ==
  IF parameter.in = "cookie" THEN LogLoop(ps, I, k + 1, warns)
  ELSE IF parameter.required = "true" /\ parameter.name \notin DOMAIN I.params
  THEN LogLoop(ps, I, k + 1,
               Append(warns, "Missing required parameter " \o parameter.name))
  ELSE [k |-> k, warns |-> warns]

\* parameter.content ? Object.values(parameter.content)[0].schema : parameter.schema
SchemaIn(ps, h, content) ==
  Field(ps, IF content.p # 0 THEN KidHandle(ps, content.p, 1) ELSE h, "schema")

SchemaOf(ps, h) == SchemaIn(ps, h, Field(ps, h, "content"))

\* The async function is suspended at the await of line 174 on the schema
\* `key` of the parameter at J.k.
AwaitSchema(J, key, r) ==
  [I |-> [J EXCEPT !.pc = "awaitSchema", !.wait = r.res, !.sch = key], S |-> r.S]

DerefSchema(S, J, key) == AwaitSchema(J, key, dereference(S, key))

\* A variant of ProceedFrom in which a logged warning ends the async function
\* (it returns undefined) in place of going on to serialization.
ProceedReturnOnWarn(S, J) ==
  IF J.k > Len(S.proms[J.pa].deps)
  THEN IF logging /\ J.warns # <<>>
       THEN [I |-> [J EXCEPT !.pc = "resolved", !.wait = 0], S |-> S]
       ELSE [I |-> Serialize(S.proms, J), S |-> S]
  ELSE DerefSchema(S, J, HandleKey(SchemaOf(S.proms, KidHandle(S.proms, J.pa, J.k))))

\* The async function with the logging loop stopped at J.k: past the last
\* parameter it goes on to serialization, else it awaits the schema of
\* parameter J.k.
ProceedFrom(S, J) ==
  IF J.k > Len(S.proms[J.pa].deps)
  THEN [I |-> Serialize(S.proms, J), S |-> S]
  ELSE DerefSchema(S, J, HandleKey(SchemaOf(S.proms, KidHandle(S.proms, J.pa, J.k))))

ProceedAt(S, I, stop) == ProceedFrom(S, [I EXCEPT !.warns = stop.warns, !.k = stop.k])

\* The async function from the logging loop at parameter k on, up to its next
\* await or its end: [I, S].
Proceed(S, I, k, warns) ==
  ProceedAt(S, I, IF logging THEN LogLoop(S.proms, I, k, warns)
                  ELSE [k |-> Len(S.proms[I.pa].deps) + 1, warns |-> warns])

\* api.<operationId>(params, options): the call stage, which only captures
\* its arguments.
Invoke(i, input) ==
  /\ inv[i].pc = "template"
  /\ \A j \in 1..(i - 1) : inv[j].pc # "template"
  /\ inv' = [inv EXCEPT ![i].pc = "deferred", ![i].op = input.op,
                        ![i].params = input.params, ![i].options = input.options]
  /\ UNCHANGED <<logging, hasGone, refs, cache, proms, started, returned, arg, ret>>

\* The deferred function is applied to an environment: the async function
\* runs up to `await context.dereference(unresolvedParameters)`.
Apply(i, env) ==
  /\ inv[i].pc = "deferred"
  /\ LET r == dereference(Mem, unresolvedParameters(inv[i].op))
     IN /\ inv' = [inv EXCEPT ![i].pc = "awaitParams", ![i].env = env, ![i].wait = r.res,
                              ![i].pa = r.res]
        /\ SetMem(r.S)
  /\ UNCHANGED <<logging, hasGone, refs, arg, ret>>

\* allParameters has settled: up to `await context.dereference(unresolvedRequestBody)`.
ParamsSettled(i) ==
  /\ inv[i].pc = "awaitParams"
  /\ Settled(proms, inv[i].wait)
  /\ IF Rejected(proms, inv[i].wait)
     THEN /\ inv' = [inv EXCEPT ![i] = Reject(@, proms[inv[i].wait].err, "allParameters")]
          /\ UNCHANGED <<cache, proms, started, returned>>
     ELSE LET r == dereference(Mem, Operation(inv[i].op).requestBody)
          IN /\ inv' = [inv EXCEPT ![i].pc = "awaitBody", ![i].wait = r.res]
             /\ SetMem(r.S)
  /\ UNCHANGED <<logging, hasGone, refs, arg, ret>>

\* requestBody has settled: the deprecation warning, then the logging loop.
BodySettled(i) ==
  /\ inv[i].pc = "awaitBody"
  /\ Settled(proms, inv[i].wait)
  /\ IF Rejected(proms, inv[i].wait)
     THEN /\ inv' = [inv EXCEPT ![i] = Reject(@, proms[inv[i].wait].err, "requestBody")]
          /\ UNCHANGED <<cache, proms, started, returned>>
     ELSE LET w == IF logging /\ Operation(inv[i].op).deprecated
                   THEN <<"Invoking deprecated operation">> ELSE <<>>
              r == Proceed(Mem, inv[i], 1, w)
          IN /\ inv' = [inv EXCEPT ![i] = r.I]
             /\ SetMem(r.S)
  /\ UNCHANGED <<logging, hasGone, refs, arg, ret>>

\* The schema of parameter k has settled: validate, then go on with the loop.
SchemaSettled(i) ==
  /\ inv[i].pc = "awaitSchema"
  /\ Settled(proms, inv[i].wait)
  /\ IF Rejected(proms, inv[i].wait)
     THEN /\ inv' = [inv EXCEPT ![i] = Reject(@, proms[inv[i].wait].err, "schema")]
          /\ UNCHANGED <<cache, proms, started, returned>>
     ELSE LET I == inv[i]
              schema == IF I.wait = 0 THEN [p |-> 0, v |-> I.sch] ELSE Final(proms, I.wait)
              name == ParamRec(proms, KidHandle(proms, I.pa, I.k)).name
              truthy == IF schema.p # 0 THEN TRUE ELSE schema.v \notin {"undefined", "false", ""}
              w == IF truthy /\ ~Validate(proms, schema, I.params, name)
                   THEN Append(I.warns, "Value provided for " \o name
                                          \o " does not satisfy the expected schema")
                   ELSE I.warns
              r == Proceed(Mem, I, I.k + 1, w)
          IN /\ inv' = [inv EXCEPT ![i] = r.I]
             /\ SetMem(r.S)
  /\ UNCHANGED <<logging, hasGone, refs, arg, ret>>

Init ==
  /\ logging \in BOOLEAN
  /\ hasGone \in BOOLEAN
  /\ refs = "pending"
  /\ cache = [x \in {} |-> 0]
  /\ proms = <<>>
  /\ started = [x \in {} |-> 0]
  /\ returned = [x \in {} |-> {}]
  /\ inv = [i \in 1..MaxInv |-> Template]
  /\ arg = "none"
  /\ ret = "none"

Next ==
  \/ RefsResolve
  \/ \E p \in 1..Len(proms) : RefCallback(p)
  \/ \E p \in 1..Len(proms) : Settle(p)
  \/ \E i \in 1..MaxInv : \E input \in Inputs : Invoke(i, input)
  \/ \E i \in 1..MaxInv : \E env \in Envs(inv[i].op) : Apply(i, env)
  \/ \E i \in 1..MaxInv : ParamsSettled(i)
  \/ \E i \in 1..MaxInv : BodySettled(i)
  \/ \E i \in 1..MaxInv : SchemaSettled(i)

Spec == Init /\ [][Next]_vars

(***************************************************************************)
(* Security resolution (satisfiesSecurityScheme and the checkSecurity       *)
(* block of invoke), as functions of the resolved security schemes, the     *)
(* credentials and the headers built so far.  A credential is               *)
(* [t |-> "str", s |-> token] or [t |-> "obj", has |-> its field names].    *)
(***************************************************************************)
\* String.prototype.toLowerCase on the names the model uses; a Headers
\* object keeps its names in lower case.
toLowerCase(x) ==
  CASE x = "Basic" -> "basic"
    [] x = "Bearer" -> "bearer"
    [] x = "Digest" -> "digest"
    [] x = "X-API-Key" -> "x-api-key"
    [] x = "Authorization" -> "authorization"
    [] x = "Content-Type" -> "content-type"
    [] OTHER -> x

\* `${credential}` in a template literal.
CredentialText(c) == IF c.t = "str" THEN c.s ELSE "[object Object]"

\* satisfiesSecurityScheme(securitySchemes, credentials)(name): "true" or
\* "false", or "TypeError" where the code throws (`'user' in x` on an x that
\* is no object).
satisfiesSecurityScheme(securitySchemes, credentials, name) ==
  LET scheme == securitySchemes[name]
  IN CASE scheme.type = "http" ->
            IF name \notin DOMAIN credentials THEN "false"
            ELSE CASE toLowerCase(scheme.scheme) = "basic" ->
                        IF credentials[name].t # "obj" THEN "TypeError"
                        ELSE IF "user" \in credentials[name].has
                                /\ "pass" \in credentials[name].has
                        THEN "true" ELSE "false"
                   [] toLowerCase(scheme.scheme) = "bearer" -> "true"
                   [] OTHER -> "true"
       [] scheme.type = "apiKey" /\ scheme.in = "cookie" -> "true"
       [] OTHER -> IF name \in DOMAIN credentials THEN "true" ELSE "false"

RECURSIVE Every(_, _, _), ApplyRequirement(_, _, _, _), FirstSatisfied(_, _, _, _, _)

\* Object.keys(requirement).every(satisfiesSecurityScheme(...)): stops at the
\* first scheme that is not satisfied.
Every(securitySchemes, credentials, names) ==
  IF Len(names) = 0 THEN "true"
  ELSE LET r == satisfiesSecurityScheme(securitySchemes, credentials, Head(names))
       IN IF r = "true" THEN Every(securitySchemes, credentials, Tail(names)) ELSE r

\* encodeBase64, kept symbolic.
encodeBase64(d) == "base64(" \o d \o ")"

\* Lines 242-273: the credentials of the winning requirement are applied
\* scheme by scheme.  url is a string, so url.searchParams is undefined and
\* the append of an apiKey in the query throws a TypeError.
ApplyRequirement(securitySchemes, credentials, names, headers) ==
  IF Len(names) = 0 THEN [headers |-> headers, threw |-> ""]
  ELSE LET schemeName == Head(names)
           scheme == securitySchemes[schemeName]
           text == CredentialText(credentials[schemeName])
           basic == "Basic " \o encodeBase64(
                      (IF "user" \in credentials[schemeName].has THEN "u" ELSE "undefined")
                      \o ":" \o
                      (IF "pass" \in credentials[schemeName].has THEN "p" ELSE "undefined"))
       IN CASE scheme.type = "apiKey" /\ scheme.in = "cookie" ->
                 ApplyRequirement(securitySchemes, credentials, Tail(names), headers)
            [] scheme.type = "apiKey" /\ scheme.in = "header" ->
                 ApplyRequirement(securitySchemes, credentials, Tail(names),
                                  Put(headers, toLowerCase(scheme.name), text))
            [] scheme.type = "apiKey" /\ scheme.in = "query" ->
                 [headers |-> headers, threw |-> "TypeError"]
            [] scheme.type = "http" /\ toLowerCase(scheme.scheme) = "bearer" ->
                 ApplyRequirement(securitySchemes, credentials, Tail(names),
                                  Put(headers, "authorization", "Bearer " \o text))
            [] scheme.type = "http" /\ toLowerCase(scheme.scheme) = "basic" ->
                 ApplyRequirement(securitySchemes, credentials, Tail(names),
                                  Put(headers, "authorization", basic))
            [] scheme.type = "http" ->
                 ApplyRequirement(securitySchemes, credentials, Tail(names),
                                  Put(headers, "authorization", text))
            [] OTHER ->
                 ApplyRequirement(securitySchemes, credentials, Tail(names),
                                  Put(headers, "authorization", "Bearer " \o text))

\* The for loop of checkSecurity from requirement i on: the first
\* requirement whose schemes are all satisfied is applied and ends the block;
\* when none is, the warning is given if logging is on.
FirstSatisfied(security, securitySchemes, credentials, headers, i) ==
  IF i > Len(security)
  THEN [headers |-> headers, threw |-> "", winner |-> 0,
        warns |-> IF logging THEN <<"No required set of security schemes was satisfied">>
                  ELSE <<>>]
  ELSE LET all == Every(securitySchemes, credentials, security[i])
           r == ApplyRequirement(securitySchemes, credentials, security[i], headers)
       IN CASE all = "TypeError" ->
                 [headers |-> headers, threw |-> "TypeError", winner |-> 0, warns |-> <<>>]
            [] all = "true" ->
                 [headers |-> r.headers, threw |-> r.threw, winner |-> i, warns |-> <<>>]
            [] OTHER -> FirstSatisfied(security, securitySchemes, credentials, headers, i + 1)

\* checkSecurity: if (security.length) { ... }
checkSecurity(security, securitySchemes, credentials, headers) ==
  IF Len(security) = 0
  THEN [headers |-> headers, threw |-> "", winner |-> 0, warns |-> <<>>]
  ELSE FirstSatisfied(security, securitySchemes, credentials, headers, 1)

\* The security requirement lists the security functions are applied to.
SecurityLists ==
  {<<>>, <<<<>>>>, <<<<"sid">>>>, <<<<"api_key">>, <<"oauth2">>>>, <<<<"basic">>>>,
   <<<<"basic", "api_key">>, <<"bearer">>>>, <<<<"digest">>, <<"oidc">>, <<"sid">>>>,
   <<<<"qkey">>, <<"bearer">>>>, <<<<"sid", "oauth2">>, <<"api_key">>>>}

\* The credential sets env.credentials may hold: tokens under some of the
\* token schemes, and under basic no entry, an object with any of the fields
\* user and pass, or a primitive (a token given where { user, pass } is
\* expected).
TokenSets ==
  {{}, {"oauth2"}, {"api_key", "bearer", "oidc"}, {"qkey", "digest", "oauth2"},
   {"api_key", "qkey", "bearer", "digest", "oauth2", "oidc"}}

BasicEntries == {ObjectC(b) : b \in SUBSET {"user", "pass"}} \cup {TokenC("token")}

CredentialSets ==
  {[n \in names |-> TokenC("token")] : names \in TokenSets}
  \cup {[n \in names \cup {"basic"} |-> IF n = "basic" THEN b ELSE TokenC("token")] :
          names \in {{}, {"api_key", "bearer", "oidc"}}, b \in BasicEntries}

\* The headers of options.headers: none, or an Authorization of the caller.
NoHeaders == [x \in {} |-> ""]

InitPure ==
  /\ hasGone = TRUE
  /\ refs = "pending"
  /\ cache = [x \in {} |-> 0]
  /\ proms = <<>>
  /\ started = [x \in {} |-> 0]
  /\ returned = [x \in {} |-> {}]
  /\ inv = [i \in 1..MaxInv |-> Template]
  /\ ret = <<>>

\* The scheme objects of the resolved securitySchemes (the value of the
\* fulfilled promise p), by name.
ResolvedSchemes(ps, p) ==
  LET field(h, k) == IF Field(ps, h, k).v = "undefined" THEN "" ELSE Field(ps, h, k).v
  IN [n \in DOMAIN SecuritySchemes |->
        LET h == Field(ps, Final(ps, p), n)
        IN Scheme(field(h, "type"), field(h, "scheme"), field(h, "in"), field(h, "name"))]

\* The checkSecurity block on its own: ret is empty before the block, and
\* holds one record once it is entered: pc "await" while it is suspended at
\* line 235 on the promise `wait`, "done" at its end with `out` what it did
\* and `sat` what the test of each scheme answered.
NoSat == [n \in {} |-> ""]

NoOut(headers, threw) == [headers |-> headers, threw |-> threw, winner |-> 0, warns |-> <<>>]

InitSecurity ==
  /\ logging \in BOOLEAN
  /\ hasGone \in BOOLEAN
  /\ refs = "pending"
  /\ cache = [x \in {} |-> 0]
  /\ proms = <<>>
  /\ started = [x \in {} |-> 0]
  /\ returned = [x \in {} |-> {}]
  /\ inv = [i \in 1..MaxInv |-> Template]
  /\ ret = <<>>
  /\ arg \in [security : SecurityLists, credentials : CredentialSets,
              headers : {NoHeaders, [authorization |-> "caller"]}]

\* Lines 234-235: with an empty security list the block is skipped; else
\* context.dereference(context.securitySchemes) is called and the function
\* is suspended at the await.
EnterSecurity ==
  /\ ret = <<>>
  /\ IF Len(arg.security) = 0
     THEN /\ ret' = <<[pc |-> "done", wait |-> 0, sat |-> NoSat,
                       out |-> checkSecurity(arg.security, SecuritySchemes,
                                             arg.credentials, arg.headers)]>>
          /\ UNCHANGED <<cache, proms, started, returned>>
     ELSE LET r == dereference(Mem, "securitySchemes")
          IN /\ ret' = <<[pc |-> "await", wait |-> r.res, sat |-> NoSat,
                          out |-> NoOut(arg.headers, "")]>>
             /\ SetMem(r.S)
  /\ UNCHANGED <<logging, hasGone, refs, inv, arg>>

\* While the block is suspended the caller's code runs: env.credentials, read
\* at line 236 only, may have been replaced by then.
ChangeCredentials ==
  /\ Len(ret) = 1
  /\ ret[1].pc = "await"
  /\ \E c \in CredentialSets :
       /\ c # arg.credentials
       /\ arg' = [arg EXCEPT !.credentials = c]
  /\ UNCHANGED <<logging, hasGone, refs, cache, proms, started, returned, inv, ret>>

\* Lines 235-280 after the await: a rejected securitySchemes rejects the
\* invocation; else the credentials are read and the loop runs on the
\* resolved schemes.
LeaveSecurity ==
  /\ Len(ret) = 1
  /\ ret[1].pc = "await"
  /\ Settled(proms, ret[1].wait)
  /\ IF Rejected(proms, ret[1].wait)
     THEN ret' = <<[ret[1] EXCEPT !.pc = "done", !.wait = 0,
                                  !.out = NoOut(arg.headers, proms[ret[1].wait].err)]>>
     ELSE LET securitySchemes == ResolvedSchemes(proms, ret[1].wait)
          IN ret' = <<[pc |-> "done", wait |-> 0,
                       sat |-> [n \in DOMAIN securitySchemes |->
                                  satisfiesSecurityScheme(securitySchemes, arg.credentials, n)],
                       out |-> checkSecurity(arg.security, securitySchemes,
                                             arg.credentials, arg.headers)]>>
  /\ UNCHANGED <<logging, hasGone, refs, cache, proms, started, returned, inv, arg>>

NextSecurity ==
  \/ EnterSecurity
  \/ ChangeCredentials
  \/ LeaveSecurity
  \/ RefsResolve
  \/ \E p \in 1..Len(proms) : RefCallback(p)
  \/ \E p \in 1..Len(proms) : Settle(p)

SpecSecurity == InitSecurity /\ [][NextSecurity]_vars

(***************************************************************************)
(* queryParameter as a pure function of an array value.                     *)
(***************************************************************************)
\* Longest array value.
MaxLen == 2

Elements == {"1", "2", "a b"}

Arrays == UNION {[1..n -> Elements] : n \in 0..MaxLen}

QueryInputs ==
  {[values |-> [n \in {name} |-> ArrV(a)],
    parameter |-> [name |-> name, in |-> "query", style |-> style, explode |-> explode,
                   required |-> "undefined", allowReserved |-> allowReserved,
                   allowEmptyValue |-> "undefined"]] :
     name \in {"id", "a b"}, a \in Arrays,
     style \in {"undefined", "form", "spaceDelimited", "pipeDelimited", "deepObject"},
     explode \in {"undefined", "true", "false"}, allowReserved \in {"undefined", "true"}}

InitQuery ==
  /\ InitPure
  /\ logging = FALSE
  /\ arg \in QueryInputs

ApplyQuery ==
  /\ Len(ret) = 0
  /\ ret' = <<queryParameter(arg.values, arg.parameter)>>
  /\ UNCHANGED <<logging, hasGone, refs, cache, proms, started, returned, inv, arg>>

SpecQuery == InitQuery /\ [][ApplyQuery]_vars

(***************************************************************************)
(* Properties.                                                              *)
(***************************************************************************)
Invocations == 1..MaxInv

\* The execution stage of invocation i has ended.
Done(i) == inv[i].pc \in {"rejected", "resolved"}

\* Invocation i delivered exactly one request to fetch.
Delivered(i) == Len(inv[i].requests) = 1

\* The delivered request of invocation i has header h with value v.
Carries(i, h, v) ==
  /\ Delivered(i)
  /\ h \in DOMAIN inv[i].requests[1].headers
  /\ inv[i].requests[1].headers[h] = v

\* The delivered request of invocation i has no header h.
Lacks(i, h) == Delivered(i) /\ h \notin DOMAIN inv[i].requests[1].headers

\* No requirement of the list is satisfiable with the credentials.
NoneSatisfiable(security, credentials) ==
  \A a \in 1..Len(security) : Every(SecuritySchemes, credentials, security[a]) # "true"

\* C1: with the alternatives [{api_key}, {oauth2}] and credentials that hold
\* only oauth2, the request of a finished invocation carries
\* Authorization: Bearer <token> and nothing from api_key.
C1_FirstSatisfiableApplied ==
  \A i \in Invocations :
    (/\ Done(i)
     /\ Operation(inv[i].op).security = <<<<"api_key">>, <<"oauth2">>>>
     /\ DOMAIN inv[i].env.credentials = {"oauth2"})
    => /\ Carries(i, "authorization", "Bearer " \o inv[i].env.credentials["oauth2"].s)
       /\ Lacks(i, "x-api-key")

\* C2: when no alternative of a non-empty security list is satisfiable (and
\* the caller gave no Authorization header), the execution stage does not
\* reject, fetch is called with a request without Authorization, and the
\* warning is given iff logging is on.
C2_UnsatisfiedStillSent ==
  \A i \in Invocations :
    (/\ Done(i)
     /\ inv[i].at \notin {"allParameters", "requestBody", "schema"}
     /\ Len(Operation(inv[i].op).security) > 0
     /\ NoneSatisfiable(Operation(inv[i].op).security, inv[i].env.credentials))
    => /\ inv[i].pc = "resolved"
       /\ Lacks(i, "authorization")
       /\ logging <=> (\E w \in 1..Len(inv[i].warns) :
                         inv[i].warns[w] = "No required set of security schemes was satisfied")

\* The pending promises that no promise job can settle any more.
Runnable(p) ==
  IF proms[p].kind = "then" /\ ~proms[p].called THEN refs = "resolved"
  ELSE /\ proms[p].st = "pending"
       /\ \/ \E d \in 1..Len(proms[p].deps) : Rejected(proms, proms[p].deps[d])
          \/ \A d \in 1..Len(proms[p].deps) :
               IF proms[p].deps[d] = 0 THEN TRUE
               ELSE proms[proms[p].deps[d]].st = "fulfilled"

\* C3: in a document whose pointers are all in the reference index, once
\* $refs has resolved and every promise job that can run has run, every
\* promise dereference returned has settled (none stays pending forever).
C3_DereferenceSettles ==
  (hasGone /\ refs = "resolved" /\ \A p \in 1..Len(proms) : ~Runnable(p))
  => \A p \in 1..Len(proms) : proms[p].st # "pending"

\* C4: the cache is keyed by node and shared by all invocations: fn is run at
\* most once per node, every call of dereference with a node returns the one
\* cached result, an entry is never replaced or removed, a settled promise
\* never changes (a rejected result stays that rejected result), and the
\* invocations of one operation all await the same promise.
C4_CacheShared ==
  [][/\ \A k \in DOMAIN cache : k \in DOMAIN cache' /\ cache'[k] = cache[k]
     /\ \A k \in DOMAIN started' :
          /\ started'[k] = 1
          /\ k \in DOMAIN cache'
          /\ returned'[k] = {cache'[k]}
     /\ \A p \in 1..Len(proms) :
          /\ p <= Len(proms')
          /\ proms'[p].key = proms[p].key
          /\ proms[p].st # "pending" => proms'[p] = proms[p]
     /\ \A i, j \in Invocations :
          (inv'[i].op = inv'[j].op /\ inv'[i].pa # 0 /\ inv'[j].pa # 0)
          => inv'[i].pa = inv'[j].pa]_vars

\* Two invocations of one operation were both rejected by the one rejected
\* promise of their parameter list, whose resolution ran once.
C4_Witness ==
  \E i, j \in Invocations :
    /\ i # j
    /\ inv[i].op = inv[j].op
    /\ inv[i].pc = "rejected" /\ inv[j].pc = "rejected"
    /\ inv[i].at = "allParameters" /\ inv[j].at = "allParameters"
    /\ inv[i].pa = inv[j].pa
    /\ proms[inv[i].pa].st = "rejected"
    /\ inv[i].err = proms[inv[i].pa].err /\ inv[j].err = inv[i].err
    /\ started[unresolvedParameters(inv[i].op)] = 1

CAN_HAVE_BODY == {"put", "post", "delete", "patch"}

\* The keys of requestBody.content of an operation, in the document.
ContentKeys(op) ==
  DocKeys(DocKids(Operation(op).requestBody)[IndexOf(DocKeys(Operation(op).requestBody),
                                                     "content")])

\* C5: for an operation that can carry a body and declares a requestBody
\* (a required body being supplied), the delivered Content-Type is the
\* caller's header if there is one, else the sole key of requestBody.content,
\* else there is none and the body is the one supplied; the request is sent.
C5_ContentTypeResolved ==
  \A i \in Invocations :
    (/\ Done(i)
     /\ inv[i].at \notin {"allParameters", "requestBody", "schema"}
     /\ Operation(inv[i].op).method \in CAN_HAVE_BODY
     /\ Operation(inv[i].op).requestBody # "undefined"
     /\ inv[i].options.body # "undefined")
    => IF inv[i].options.contentType # "undefined"
       THEN Carries(i, "content-type", inv[i].options.contentType)
       ELSE IF Len(ContentKeys(inv[i].op)) = 1
       THEN Carries(i, "content-type", ContentKeys(inv[i].op)[1])
       ELSE Lacks(i, "content-type") /\ inv[i].requests[1].body = inv[i].options.body

\* C6: an invocation whose references all resolve does not reject, whatever
\* advisory conditions hold, and calls fetch exactly once.
C6_AdvisoryNeverFatal ==
  \A i \in Invocations :
    (Done(i) /\ inv[i].at \notin {"allParameters", "requestBody", "schema"})
    => inv[i].pc = "resolved" /\ Delivered(i)

\* C7: nothing is dereferenced and fetch is not called before a deferred
\* invocation is applied to an environment; serialization starts only when
\* the whole parameter list is dereferenced; and an invocation that got that
\* far ends having called fetch exactly once, after serialization, with
\* fetch's result as its own.
C7_StagesOrdered ==
  /\ (\A i \in Invocations : inv[i].pc \in {"template", "deferred"})
     => Len(proms) = 0 /\ DOMAIN cache = {}
  /\ \A i \in Invocations :
       /\ inv[i].pc \in {"template", "deferred"} => inv[i].requests = <<>>
       /\ inv[i].url # "" => proms[inv[i].pa].st = "fulfilled"
       /\ Delivered(i) => inv[i].url # ""
       /\ (Done(i) /\ inv[i].url # "") => inv[i].pc = "resolved" /\ Delivered(i)

\* What C8 states for an array value: with explode one name=element pair per
\* element in order, else one pair joined by the delimiter of the style.
ClaimedPairs(values, parameter) ==
  LET name == parameter.name
      a == values[name].a
      style == parameter.style
      explode == IF parameter.explode = "undefined" THEN style \in {"undefined", "form"}
                 ELSE parameter.explode = "true"
      enc(x) == IF parameter.allowReserved = "true" THEN x ELSE encodeURIComponent(x)
      delimiter == IF style = "spaceDelimited" THEN "%20"
                   ELSE IF style = "pipeDelimited" THEN "|" ELSE ","
  IN IF explode
     THEN [t |-> "array",
           v |-> [i \in 1..Len(a) |-> encodeURIComponent(name) \o "=" \o enc(a[i])]]
     ELSE [t |-> "string",
           v |-> <<encodeURIComponent(name) \o "="
                   \o Join([i \in 1..Len(a) |-> enc(a[i])], delimiter)>>]

\* C8: for every name and array of scalars (style form, spaceDelimited or
\* pipeDelimited), queryParameter yields one name=element pair per element
\* with explode=true and a single delimiter-joined pair with explode=false.
C8_ArrayPairs ==
  (Len(ret) = 1 /\ arg.parameter.style # "deepObject")
  => ret[1] = ClaimedPairs(arg.values, arg.parameter)

\* C9: when the path item and the operation both define the parameter
\* (id, path), the url is built from the operation-level definition alone:
\* its style (label) expands the placeholder.
C9_OperationLevelOverrides ==
  \A i \in Invocations :
    (inv[i].op = "getUser" /\ inv[i].url # "" /\ "id" \in DOMAIN inv[i].params)
    => inv[i].url = inv[i].env.url \o "/users/"
                    \o Expand(".", "id", FALSE, inv[i].params)

\* What C10 states for one scheme and a credential set: basic needs an entry
\* that has a user and a pass field (a primitive entry has neither), a cookie
\* apiKey needs nothing, any other scheme needs an entry.
ClaimedSatisfiable(scheme, name, credentials) ==
  IF scheme.type = "http" /\ toLowerCase(scheme.scheme) = "basic"
  THEN /\ name \in DOMAIN credentials
       /\ credentials[name].t = "obj"
       /\ {"user", "pass"} \subseteq credentials[name].has
  ELSE IF scheme.type = "apiKey" /\ scheme.in = "cookie" THEN TRUE
  ELSE name \in DOMAIN credentials

\* An alternative made only of apiKey schemes in a cookie (or of nothing).
OnlyCookies(names) ==
  \A n \in 1..Len(names) :
    SecuritySchemes[names[n]].type = "apiKey" /\ SecuritySchemes[names[n]].in = "cookie"

\* C10: once the block has run on the resolved schemes, a scheme's test has
\* answered exactly as stated, for every credential set (basic: satisfiable
\* iff there is an entry with user and pass; cookie apiKey: always; any other
\* scheme: iff there is an entry), the test itself throws nothing, so a first
\* alternative of cookie apiKeys only, or an empty one, wins whatever the
\* credentials, and a winner of that kind leaves the headers as they were,
\* throws nothing and warns of nothing.
C10_SchemeSatisfiable ==
  (Len(ret) = 1 /\ ret[1].pc = "done" /\ ret[1].out.threw # "MissingPointerError")
  => /\ Len(arg.security) > 0
        => /\ DOMAIN ret[1].sat = DOMAIN SecuritySchemes
           /\ \A n \in DOMAIN SecuritySchemes :
                ret[1].sat[n] = IF ClaimedSatisfiable(SecuritySchemes[n], n, arg.credentials)
                                THEN "true" ELSE "false"
     /\ (Len(arg.security) > 0 /\ OnlyCookies(arg.security[1])) => ret[1].out.winner = 1
     /\ (ret[1].out.winner > 0 /\ OnlyCookies(arg.security[ret[1].out.winner]))
        => /\ ret[1].out.headers = arg.headers
           /\ ret[1].out.threw = ""
           /\ ret[1].out.warns = <<>>

\* What the caller and fetch see of an invocation: how it settled and the
\* requests (url, method, headers, body) it delivered.
Observable(I) == [settled |-> I.pc, requests |-> I.requests]

\* C11: the logging flag does not influence the request.  An invocation that
\* got past the two awaits of lines 159-160 settles, with logging on or off,
\* the way the code after the logging block (lines 186-288) settles it, with
\* the same requests delivered to fetch; one that was rejected before has
\* logged nothing; without logging warn is never called; and the await of the
\* logging loop (line 174) never stays pending once every promise job has run.
C11_LoggingTransparent ==
  /\ \A i \in Invocations :
       /\ (Done(i) /\ inv[i].at \notin {"allParameters", "requestBody"})
          => Observable(inv[i]) = Observable(Serialize(proms, inv[i]))
       /\ (Done(i) /\ inv[i].at \in {"allParameters", "requestBody"})
          => inv[i].pc = "rejected" /\ inv[i].requests = <<>> /\ inv[i].warns = <<>>
       /\ ~logging => inv[i].warns = <<>>
  /\ (refs = "resolved" /\ \A p \in 1..Len(proms) : ~Runnable(p))
     => \A i \in Invocations :
          inv[i].pc = "awaitSchema" => Settled(proms, inv[i].wait)

\* With logging on, an invocation went through the logging loop, awaited a
\* parameter's schema, warned, and has settled.
C11_Witness ==
  /\ logging
  /\ \E i \in Invocations :
       /\ Done(i)
       /\ inv[i].at = "url.search"
       /\ inv[i].sch # ""
       /\ Len(inv[i].warns) > 1

====
